---------------------------- MODULE Spec2Model ----------------------------
(* A state-machine model of run_busselton.py, the ANUGA run script for the  *)
(* Busselton tsunami scenario: data conversion, mesh/domain creation,       *)
(* initial and boundary conditions, two evolve loops, upload of the result  *)
(* files.  Strings are sequences of one-character strings, so that string   *)
(* concatenation, str.replace and file-name equality are computed.          *)
EXTENDS Integers, Sequences, FiniteSets, TLC

VARIABLES
    pc,            \* index into Script of the statement to execute next
    status,        \* "running", "error" (an exception propagated) or "done"
    err,           \* "none", or the exception that ended the script
    started,       \* history: the statements that were started, in order
    returned,      \* history: the statements that returned, in order
    name_stem,     \* template variable ${name_stem}
    dataset,       \* template variable ${input_dataset}
    env,           \* os.environ restricted to the two STORAGE_ variables
    v_tide,        \* template variable ${tide}
    files,         \* names of the files present in the working directory
    domain,        \* the anuga domain object
    yielded,       \* history: model times yielded (and stored) by evolve
    yieldtime,     \* evolve's next yield time
    finaltime,     \* evolve's final time
    inloop,        \* whether control is inside an evolve loop
    launched,      \* history: argument lists of the subprocesses launched
    log,           \* history: the "cloudUpload: ..." lines printed
    timerPrinted,  \* whether the timer statistics were printed
    wave_in,       \* argument of a the_wave evaluation, [type, val]
    wave_out       \* result of that evaluation

ctl    == <<pc, status, err, started, returned>>
inputs == <<name_stem, dataset, env, v_tide>>
sim    == <<domain, yielded, yieldtime, finaltime, inloop>>
up     == <<launched, log, timerPrinted>>
wave   == <<wave_in, wave_out>>
vars   == <<pc, status, err, started, returned, name_stem, dataset, env,
            v_tide, files, domain, yielded, yieldtime, finaltime, inloop,
            launched, log, timerPrinted, wave_in, wave_out>>

-----------------------------------------------------------------------------
(* Bounds of the model *)

\* smallest solver timestep modelled, in seconds
MinDt == 40
\* solver timesteps are MinDt * k for k in 1..MaxDtMult (then clipped)
MaxDtMult == 2
\* the_wave is evaluated for t in 0..MaxWaveT
MaxWaveT == 1200

-----------------------------------------------------------------------------
(* String literals of the script *)

S_busselton_  == <<"b","u","s","s","e","l","t","o","n","_">>
S_fixed_wave  == <<"f","i","x","e","d","_","w","a","v","e">>
S_msh         == <<".","m","s","h">>
S_asc         == <<".","a","s","c">>
S_prj         == <<".","p","r","j">>
S_dem         == <<".","d","e","m">>
S_pts         == <<".","p","t","s">>
S_sww         == <<".","s","w","w">>
S_UTM_nc      == <<"_","U","T","M",".","n","c">>
S_fixed_wave_sww == <<"_","f","i","x","e","d","_","w","a","v","e",".","s","w","w">>
S_raw_elevation  == <<"r","a","w","_","e","l","e","v","a","t","i","o","n">>
S_slash       == <<"/">>
S_dot         == <<".">>
S_cloud       == <<"c","l","o","u","d">>
S_upload      == <<"u","p","l","o","a","d">>
S_set_acl     == <<"-","-","s","e","t","-","a","c","l","=","p","u","b","l","i","c",
                   "-","r","e","a","d">>

\* line 59
scenario == S_fixed_wave

\* line 48
meshname == name_stem \o S_msh

-----------------------------------------------------------------------------
(* Inputs: template substitutions and the environment *)

NameStems == { <<"b","u","s","s","e","l","t","o","n">>, <<"x">> }
Datasets  == { <<"i",".","n","c">>, <<"x",".","m","s","h">> }
Tides     == { 0, 1 }
Buckets   == { <<"b">>, <<"b","/">> }
BaseKeys  == { <<"d">> }
EnvNames  == { "STORAGE_BUCKET", "STORAGE_BASE_KEY_PATH" }
EnvValue(n) == IF n = "STORAGE_BUCKET" THEN Buckets ELSE BaseKeys
\* every environment: each of the two variables set to a value, or not set
Environments ==
    UNION { { e \in [S -> Buckets \cup BaseKeys] : \A n \in S : e[n] \in EnvValue(n) }
            : S \in SUBSET EnvNames }
RetCodes  == { 0, 1 }


-----------------------------------------------------------------------------
(* The script: its statements in program order *)

\* the upload list with the .pts line repeated in place of the .msh line
UploadList_pts_twice ==
    << [file |-> dataset,                       key |-> S_raw_elevation],
       [file |-> name_stem \o S_UTM_nc,         key |-> name_stem \o S_UTM_nc],
       [file |-> name_stem \o S_asc,            key |-> name_stem \o S_asc],
       [file |-> name_stem \o S_prj,            key |-> name_stem \o S_prj],
       [file |-> name_stem \o S_dem,            key |-> name_stem \o S_dem],
       [file |-> name_stem \o S_pts,            key |-> name_stem \o S_pts],
       [file |-> name_stem \o S_pts,            key |-> name_stem \o S_pts],
       [file |-> name_stem \o S_fixed_wave_sww, key |-> name_stem \o S_fixed_wave_sww] >>

\* lines 220-227: the cloudUpload calls, [file, key] in program order
UploadList ==
    << [file |-> dataset,                       key |-> S_raw_elevation],
       [file |-> name_stem \o S_UTM_nc,         key |-> name_stem \o S_UTM_nc],
       [file |-> name_stem \o S_asc,            key |-> name_stem \o S_asc],
       [file |-> name_stem \o S_prj,            key |-> name_stem \o S_prj],
       [file |-> name_stem \o S_dem,            key |-> name_stem \o S_dem],
       [file |-> name_stem \o S_pts,            key |-> name_stem \o S_pts],
       [file |-> name_stem \o S_msh,            key |-> name_stem \o S_msh],
       [file |-> name_stem \o S_fixed_wave_sww, key |-> name_stem \o S_fixed_wave_sww] >>

\* the prologue with the evolve loops written before set_boundary
Prologue_evolve_before_boundary ==
    << "nc2asc", "asc2dem", "dem2pts", "create_domain", "set_params",
       "set_stage", "set_friction", "set_elevation", "make_boundaries",
       "evolve1", "evolve2", "set_boundary" >>

\* lines 94-200: the statements before the uploads
Prologue ==
    << "nc2asc", "asc2dem", "dem2pts", "create_domain", "set_params",
       "set_stage", "set_friction", "set_elevation", "make_boundaries",
       "set_boundary", "evolve1", "evolve2" >>

\* lines 94-240: the whole script
Script ==
    Prologue \o [i \in 1..Len(UploadList) |-> "cloudUpload"] \o <<"timer_stats">>

\* the statement at pc is s and the script has not ended
At(s) == status = "running" /\ pc \in 1..Len(Script) /\ Script[pc] = s

\* the statement at pc returns: control passes to the next statement
Return ==
    /\ pc' = pc + 1
    /\ status' = IF pc = Len(Script) THEN "done" ELSE "running"
    /\ err' = err
    /\ started' = Append(started, Script[pc])
    /\ returned' = Append(returned, Script[pc])

\* the statement at pc raises, the exception is caught and the statement is
\* tried again
Raise_retry(e) ==
    /\ pc' = pc
    /\ status' = "running"
    /\ err' = e
    /\ started' = Append(started, Script[pc])
    /\ returned' = returned

\* the statement at pc raises: nothing catches it, the interpreter exits
Raise(e) ==
    /\ pc' = pc
    /\ status' = "error"
    /\ err' = e
    /\ started' = Append(started, Script[pc])
    /\ returned' = returned

-----------------------------------------------------------------------------
(* Domain configuration *)

\* lines 66-75
busselton_extent ==
    << <<357325, 6270510>>, <<344635, 6267810>>, <<314645, 6268400>>,
       <<286811, 6277911>>, <<286174, 6308019>>, <<293089, 6341152>>,
       <<344595, 6456235>>, <<389463, 6441867>>, <<392955, 6320400>>,
       <<379095, 6288910>> >>

\* a Python dict literal: the keys of kv are distinct
Dict(kv) ==
    [k \in { kv[i][1] : i \in DOMAIN kv } |->
        (CHOOSE i \in DOMAIN kv : kv[i][1] = k) ]

DictValue(kv, k) == kv[Dict(kv)[k]][2]

\* lines 108-117: tag -> the boundary segments it names
boundary_tags_items ==
    << <<"land_sse", {0}>>, <<"land_s", {1}>>, <<"bottom", {2}>>,
       <<"ocean_wsw", {3}>>, <<"ocean_w", {4}>>, <<"ocean_wnw", {5}>>,
       <<"top", {6}>>, <<"land_nne", {7}>>, <<"land_ese", {8}>>,
       <<"land_se", {9}>> >>

boundary_tags ==
    [t \in DOMAIN Dict(boundary_tags_items) |-> DictValue(boundary_tags_items, t)]

\* the set_boundary argument with 'top' bound to the Dirichlet boundary
boundary_map_items_top_Bd ==
    << <<"land_sse", "Bs">>, <<"land_s", "Bs">>, <<"bottom", "Bs">>,
       <<"ocean_wsw", "Bw">>, <<"ocean_w", "Bw">>, <<"ocean_wnw", "Bw">>,
       <<"top", "Bd">>, <<"land_nne", "Bs">>, <<"land_ese", "Bs">>,
       <<"land_se", "Bs">> >>

\* lines 170-179: tag -> boundary object
boundary_map_items ==
    << <<"land_sse", "Bs">>, <<"land_s", "Bs">>, <<"bottom", "Bs">>,
       <<"ocean_wsw", "Bw">>, <<"ocean_w", "Bw">>, <<"ocean_wnw", "Bw">>,
       <<"top", "Bs">>, <<"land_nne", "Bs">>, <<"land_ese", "Bs">>,
       <<"land_se", "Bs">> >>

boundary_map ==
    [t \in DOMAIN Dict(boundary_map_items) |-> DictValue(boundary_map_items, t)]

EmptyMap == [t \in {} |-> {}]

NoDomain ==
    [ created    |-> FALSE,
      nsegments  |-> 0,
      tags       |-> EmptyMap,
      name       |-> <<>>,
      datadir    |-> <<>>,
      quantities |-> {},
      objects    |-> {},
      boundary   |-> EmptyMap,
      time       |-> 0 ]

-----------------------------------------------------------------------------
(* Initial state: before line 90 *)

InitRun ==
    /\ pc = 1 /\ status = "running" /\ err = "none"
    /\ started = <<>> /\ returned = <<>>
    /\ files = {dataset}
    /\ domain = NoDomain
    /\ yielded = <<>> /\ yieldtime = 0 /\ finaltime = 0 /\ inloop = FALSE
    /\ launched = <<>> /\ log = <<>> /\ timerPrinted = FALSE

Init ==
    /\ name_stem \in NameStems
    /\ dataset \in Datasets
    /\ env \in Environments
    /\ v_tide \in Tides
    /\ InitRun
    /\ wave_in = [type |-> "float", val |-> 0] /\ wave_out = <<>>

-----------------------------------------------------------------------------
(* Data conversion, lines 93-100 *)

\* a file name without its last n characters (its extension)
StripExt(f, n) == SubSeq(f, 1, Len(f) - n)

\* line 94: VHIRL_conversions.nc2asc(dataset, name_stem, zone=zone)
Nc2asc ==
    /\ At("nc2asc")
    /\ \/ /\ dataset \in files
          /\ files' = files \cup { name_stem \o S_UTM_nc, name_stem \o S_asc,
                                   name_stem \o S_prj }
          /\ Return
       \/ Raise("nc2asc") /\ files' = files
    /\ UNCHANGED <<inputs, sim, up, wave>>

\* line 97: anuga.asc2dem(name_stem+'.asc', ...)
Asc2dem ==
    /\ At("asc2dem")
    /\ LET asc == name_stem \o S_asc IN
       \/ /\ asc \in files
          /\ files' = files \cup { StripExt(asc, Len(S_asc)) \o S_dem }
          /\ Return
       \/ Raise("asc2dem") /\ files' = files
    /\ UNCHANGED <<inputs, sim, up, wave>>

\* line 100: anuga.dem2pts(name_stem+'.dem', ...)
Dem2pts ==
    /\ At("dem2pts")
    /\ LET dem == name_stem \o S_dem IN
       \/ /\ dem \in files
          /\ files' = files \cup { StripExt(dem, Len(S_dem)) \o S_pts }
          /\ Return
       \/ Raise("dem2pts") /\ files' = files
    /\ UNCHANGED <<inputs, sim, up, wave>>

-----------------------------------------------------------------------------
(* Mesh and domain, lines 107-134 *)

\* lines 107-126: anuga.create_domain_from_regions(...), then the statistics
CreateDomain ==
    /\ At("create_domain")
    /\ \/ /\ domain' = [NoDomain EXCEPT !.created = TRUE,
                                        !.nsegments = Len(busselton_extent),
                                        !.tags = boundary_tags]
          /\ files' = files \cup {meshname}
          /\ Return
       \/ Raise("create_domain_from_regions") /\ UNCHANGED <<domain, files>>
    /\ UNCHANGED <<inputs, yielded, yieldtime, finaltime, inloop, up, wave>>

\* lines 131-134: set_name, set_datadir, set_minimum_storable_height,
\* set_flow_algorithm
SetParams ==
    /\ At("set_params")
    /\ \/ /\ domain' = [domain EXCEPT !.name = S_busselton_ \o scenario,
                                      !.datadir = S_dot]
          /\ Return
       \/ Raise("set_name") /\ domain' = domain
    /\ UNCHANGED <<inputs, files, yielded, yieldtime, finaltime, inloop, up, wave>>

-----------------------------------------------------------------------------
(* Initial conditions, lines 141-150 *)

\* domain.set_quantity(q, ...) returning or raising
SetQuantity(q) ==
    \/ /\ domain' = [domain EXCEPT !.quantities = @ \cup {q}]
       /\ Return
    \/ Raise("set_quantity") /\ domain' = domain

\* line 142
SetStage ==
    /\ At("set_stage")
    /\ SetQuantity("stage")
    /\ UNCHANGED <<inputs, files, yielded, yieldtime, finaltime, inloop, up, wave>>

\* line 143
SetFriction ==
    /\ At("set_friction")
    /\ SetQuantity("friction")
    /\ UNCHANGED <<inputs, files, yielded, yieldtime, finaltime, inloop, up, wave>>

\* lines 146-150: the elevation is fitted from the points file
SetElevation ==
    /\ At("set_elevation")
    /\ \/ (name_stem \o S_pts) \in files /\ SetQuantity("elevation")
       \/ Raise("set_quantity") /\ domain' = domain
    /\ UNCHANGED <<inputs, files, yielded, yieldtime, finaltime, inloop, up, wave>>

-----------------------------------------------------------------------------
(* Boundary conditions, lines 158-179 *)

\* lines 158-168: the boundary objects Bd, Bs and Bw
MakeBoundaries ==
    /\ At("make_boundaries")
    /\ \/ /\ domain' = [domain EXCEPT !.objects = {"Bd", "Bs", "Bw"}]
          /\ Return
       \/ Raise("boundary") /\ domain' = domain
    /\ UNCHANGED <<inputs, files, yielded, yieldtime, finaltime, inloop, up, wave>>

\* lines 170-179: domain.set_boundary({...})
SetBoundary ==
    /\ At("set_boundary")
    /\ \/ /\ domain' = [domain EXCEPT !.boundary = boundary_map]
          /\ Return
       \/ Raise("set_boundary") /\ domain' = domain
    /\ UNCHANGED <<inputs, files, yielded, yieldtime, finaltime, inloop, up, wave>>


-----------------------------------------------------------------------------
(* Evolve, lines 186-200.  domain.evolve is the solver's generator: it      *)
(* yields the starting time unless skip_initial_step, then advances the     *)
(* model time by timesteps that never pass the next yield time or the final *)
(* time, yields at every yield time and at the final time, and stops there. *)

\* line 190
YieldStep1 == 120
\* line 191
FinalTime1 == 5000
\* line 196
YieldStep2 == 30
\* line 197
FinalTime2 == 7000

Min(a, b) == IF a <= b THEN a ELSE b

\* the sww file the solver stores to: set_name and set_datadir, lines 131-132
SwwFile ==
    IF domain.datadir = S_dot
    THEN domain.name \o S_sww
    ELSE domain.datadir \o S_slash \o domain.name \o S_sww

\* an exception inside evolve, at its start or in a later step
EvolveRaise ==
    /\ pc' = pc /\ status' = "error" /\ err' = "evolve"
    /\ started' = IF inloop THEN started ELSE Append(started, Script[pc])
    /\ returned' = returned
    /\ UNCHANGED <<inputs, files, sim, up, wave>>

\* for t in domain.evolve(yieldstep, finaltime, skip_initial_step): first step
EvolveStart(yieldstep, final, skip_initial_step) ==
    /\ ~inloop
    /\ inloop' = TRUE
    /\ finaltime' = final
    /\ yieldtime' = domain.time + yieldstep
    /\ yielded' = IF skip_initial_step THEN yielded ELSE Append(yielded, domain.time)
    /\ files' = files \cup {SwwFile}
    /\ started' = Append(started, Script[pc])
    /\ UNCHANGED <<pc, status, err, returned, domain>>

\* one timestep of the solver, and the loop body when it yields
EvolveStep(yieldstep) ==
    /\ inloop
    /\ \E k \in 1..MaxDtMult :
         LET t == Min(domain.time + MinDt * k, Min(yieldtime, finaltime)) IN
         IF t >= finaltime
         THEN /\ domain' = [domain EXCEPT !.time = finaltime]
              /\ yielded' = Append(yielded, finaltime)
              /\ inloop' = FALSE
              /\ pc' = pc + 1
              /\ returned' = Append(returned, Script[pc])
              /\ UNCHANGED <<yieldtime, finaltime>>
         ELSE /\ domain' = [domain EXCEPT !.time = t]
              /\ yielded' = IF t >= yieldtime THEN Append(yielded, t) ELSE yielded
              /\ yieldtime' = IF t >= yieldtime THEN yieldtime + yieldstep ELSE yieldtime
              /\ UNCHANGED <<pc, returned, finaltime, inloop>>
    /\ UNCHANGED <<status, err, started, files>>

\* lines 190-191
Evolve1Start ==
    /\ At("evolve1")
    /\ \/ EvolveStart(YieldStep1, FinalTime1, FALSE) /\ UNCHANGED <<inputs, up, wave>>
       \/ ~inloop /\ EvolveRaise

\* lines 190-193
Evolve1Step ==
    /\ At("evolve1")
    /\ \/ EvolveStep(YieldStep1) /\ UNCHANGED <<inputs, up, wave>>
       \/ inloop /\ EvolveRaise

\* the second loop without skip_initial_step=True
Evolve2Start_no_skip ==
    /\ At("evolve2")
    /\ \/ EvolveStart(YieldStep2, FinalTime2, FALSE) /\ UNCHANGED <<inputs, up, wave>>
       \/ ~inloop /\ EvolveRaise

\* lines 196-198
Evolve2Start ==
    /\ At("evolve2")
    /\ \/ EvolveStart(YieldStep2, FinalTime2, TRUE) /\ UNCHANGED <<inputs, up, wave>>
       \/ ~inloop /\ EvolveRaise

\* lines 196-200
Evolve2Step ==
    /\ At("evolve2")
    /\ \/ EvolveStep(YieldStep2) /\ UNCHANGED <<inputs, up, wave>>
       \/ inloop /\ EvolveRaise

-----------------------------------------------------------------------------
(* Upload, lines 208-227 *)

\* str.replace("//", "/"): non-overlapping occurrences, left to right
RECURSIVE Replace(_)
Replace(s) ==
    IF Len(s) < 2 THEN s
    ELSE IF s[1] = "/" /\ s[2] = "/"
         THEN S_slash \o Replace(SubSeq(s, 3, Len(s)))
         ELSE <<s[1]>> \o Replace(Tail(s))

\* line 211
QueryPath(cloudBucket, cloudDir, cloudKey) ==
    Replace(cloudBucket \o S_slash \o cloudDir \o S_slash \o cloudKey)

\* the argument list with the destination path in place of the key
UploadArgs_dest(inFilePath, cloudKey, queryPath) ==
    << S_cloud, S_upload, queryPath, inFilePath, S_set_acl >>

\* line 212: the argument list given to subprocess.call; queryPath, computed
\* on line 211, is not part of it
UploadArgs(inFilePath, cloudKey, queryPath) ==
    << S_cloud, S_upload, cloudKey, inFilePath, S_set_acl >>

\* cloudUpload with subprocess.check_call: a non-zero exit code raises
cloudUpload_check_call(inFilePath, cloudKey) ==
    IF "STORAGE_BUCKET" \notin DOMAIN env \/ "STORAGE_BASE_KEY_PATH" \notin DOMAIN env
    THEN Raise("KeyError") /\ UNCHANGED <<launched, log>>
    ELSE LET queryPath == QueryPath(env["STORAGE_BUCKET"],
                                    env["STORAGE_BASE_KEY_PATH"], cloudKey)
         IN  \/ /\ launched' = Append(launched,
                                      UploadArgs(inFilePath, cloudKey, queryPath))
                /\ log' = Append(log, [file |-> inFilePath, path |-> queryPath,
                                       retcode |-> 0])
                /\ Return
             \/ /\ launched' = Append(launched,
                                      UploadArgs(inFilePath, cloudKey, queryPath))
                /\ log' = log
                /\ Raise("CalledProcessError")
             \/ Raise("OSError") /\ UNCHANGED <<launched, log>>

\* cloudUpload with os.environ.get(name, ''): a missing variable reads as ''
cloudUpload_env_get(inFilePath, cloudKey) ==
    LET get(n) == IF n \in DOMAIN env THEN env[n] ELSE <<>>
        queryPath == QueryPath(get("STORAGE_BUCKET"),
                               get("STORAGE_BASE_KEY_PATH"), cloudKey)
    IN  \/ \E retcode \in RetCodes :
             /\ launched' = Append(launched,
                                   UploadArgs(inFilePath, cloudKey, queryPath))
             /\ log' = Append(log, [file |-> inFilePath, path |-> queryPath,
                                    retcode |-> retcode])
             /\ Return
        \/ Raise("OSError") /\ UNCHANGED <<launched, log>>

\* lines 208-213
cloudUpload(inFilePath, cloudKey) ==
    IF "STORAGE_BUCKET" \notin DOMAIN env \/ "STORAGE_BASE_KEY_PATH" \notin DOMAIN env
    THEN Raise("KeyError") /\ UNCHANGED <<launched, log>>
    ELSE LET queryPath == QueryPath(env["STORAGE_BUCKET"],
                                    env["STORAGE_BASE_KEY_PATH"], cloudKey)
         IN  \/ \E retcode \in RetCodes :
                  /\ launched' = Append(launched,
                                        UploadArgs(inFilePath, cloudKey, queryPath))
                  /\ log' = Append(log, [file |-> inFilePath, path |-> queryPath,
                                         retcode |-> retcode])
                  /\ Return
             \/ Raise("OSError") /\ UNCHANGED <<launched, log>>

\* lines 220-227: the cloudUpload call at pc
CloudUpload ==
    /\ At("cloudUpload")
    /\ LET call == UploadList[pc - Len(Prologue)] IN
       cloudUpload(call.file, call.key)
    /\ UNCHANGED <<inputs, files, sim, timerPrinted, wave>>

\* lines 229-240
TimerStats ==
    /\ At("timer_stats")
    /\ timerPrinted' = TRUE
    /\ Return
    /\ UNCHANGED <<inputs, files, sim, launched, log, wave>>

-----------------------------------------------------------------------------
(* The script *)

Next ==
    \/ Nc2asc \/ Asc2dem \/ Dem2pts
    \/ CreateDomain \/ SetParams
    \/ SetStage \/ SetFriction \/ SetElevation
    \/ MakeBoundaries \/ SetBoundary
    \/ Evolve1Start \/ Evolve1Step \/ Evolve2Start \/ Evolve2Step
    \/ CloudUpload \/ TimerStats

Spec == Init /\ [][Next]_vars

\* every call returns or raises, and every solver step is taken
FairSpec == Spec /\ WF_vars(Next)

-----------------------------------------------------------------------------
(* The wave function, lines 166-167 *)

\* line 167: the factor 20
WaveAmplitude == 20
\* line 167: 60*10, and the 600 of exp(-t/600)
WavePeriod == 600

\* the_wave(t), Python 2: t*np.pi/(60*10) is a float for either type of t,
\* -t/600 is a floor division when t is an integer.  A stage is the term
\* amp * sin(pi * sinNum/sinDen) * exp(expNum/expDen).
the_wave(t) ==
    << [ amp    |-> WaveAmplitude,
         sinNum |-> t.val,
         sinDen |-> WavePeriod,
         expNum |-> IF t.type = "int" THEN (-t.val) \div WavePeriod ELSE -t.val,
         expDen |-> IF t.type = "int" THEN 1 ELSE WavePeriod ],
       0, 0 >>

WaveInputs == [type : {"int", "float"}, val : 0..MaxWaveT]

InitWave ==
    /\ name_stem = <<"x">>
    /\ dataset = <<"i",".","n","c">>
    /\ env = EmptyMap
    /\ v_tide \in Tides
    /\ InitRun
    /\ wave_in \in WaveInputs
    /\ wave_out = <<>>

EvalWave ==
    /\ wave_out = <<>>
    /\ wave_out' = the_wave(wave_in)
    /\ UNCHANGED <<ctl, inputs, files, sim, up, wave_in>>

NextWave == EvalWave

SpecWave == InitWave /\ [][NextWave]_vars


-----------------------------------------------------------------------------
(* Properties *)

Range(s) == { s[i] : i \in DOMAIN s }
IsPrefix(a, b) == Len(a) <= Len(b) /\ \A i \in 1..Len(a) : a[i] = b[i]
FirstUpload == Len(Prologue) + 1
EnvComplete == DOMAIN env = EnvNames

ExpectedOrder ==
    << "nc2asc", "asc2dem", "dem2pts", "create_domain", "set_params",
       "set_stage", "set_friction", "set_elevation", "make_boundaries",
       "set_boundary", "evolve1", "evolve2",
       "cloudUpload", "cloudUpload", "cloudUpload", "cloudUpload",
       "cloudUpload", "cloudUpload", "cloudUpload", "cloudUpload",
       "timer_stats" >>

\* C1: the statements start in the order conversion (nc2asc, asc2dem,
\* dem2pts), domain creation, initial conditions, boundary conditions, evolve
\* loops, uploads; a statement starts only when the previous one has
\* returned; evolve starts only with set_boundary applied to the domain; a
\* subprocess is launched only after the second evolve loop has finished.
C1_StepOrder ==
    /\ IsPrefix(started, ExpectedOrder)
    /\ IsPrefix(returned, started)
    /\ Len(started) <= Len(returned) + 1
    /\ "evolve1" \in Range(started) =>
          /\ "set_boundary" \in Range(returned)
          /\ DOMAIN domain.boundary = DOMAIN domain.tags
          /\ DOMAIN domain.boundary # {}
    /\ launched # <<>> =>
          /\ "evolve2" \in Range(returned)
          /\ ~inloop
          /\ domain.time = FinalTime2

C1_Witness ==
    /\ status = "done"
    /\ Len(launched) = 8
    /\ started = ExpectedOrder


\* the files and keys of lines 220-227, in order
ExpectedFiles ==
    << dataset, name_stem \o S_UTM_nc, name_stem \o S_asc, name_stem \o S_prj,
       name_stem \o S_dem, name_stem \o S_pts, name_stem \o S_msh,
       name_stem \o S_fixed_wave_sww >>

ExpectedKeys ==
    << S_raw_elevation, name_stem \o S_UTM_nc, name_stem \o S_asc,
       name_stem \o S_prj, name_stem \o S_dem, name_stem \o S_pts,
       name_stem \o S_msh, name_stem \o S_fixed_wave_sww >>

Distinct(s) == \A i, j \in DOMAIN s : i # j => s[i] # s[j]

\* file and key of the i-th subprocess launched
LaunchedFile(i) == launched[i][4]
LaunchedKey(i)  == launched[i][3]

\* every cloudUpload call that returned launched one subprocess, the
\* launches follow lines 220-227 in order, and a run that ends normally
\* made all 8 of them
UploadsInOrder ==
    /\ Len(launched) = Cardinality({ i \in DOMAIN returned : returned[i] = "cloudUpload" })
    /\ Len(launched) <= 8
    /\ \A i \in DOMAIN launched :
          LaunchedFile(i) = ExpectedFiles[i] /\ LaunchedKey(i) = ExpectedKeys[i]
    /\ status = "done" => Len(launched) = 8
    /\ Distinct([i \in DOMAIN launched |-> LaunchedKey(i)])

\* C2 as stated: 8 uploads in the fixed order when no statement raises, one
\* subprocess per call, the 8 keys pairwise distinct, and no file uploaded
\* twice.
C2_Original ==
    /\ UploadsInOrder
    /\ Distinct([i \in DOMAIN launched |-> LaunchedFile(i)])

\* C2 amended: as stated, but no file is uploaded twice only when the input
\* dataset is not one of the seven files named after name_stem.
C2_UploadOncePerFile ==
    /\ UploadsInOrder
    /\ dataset \notin Range(Tail(ExpectedFiles)) =>
          Distinct([i \in DOMAIN launched |-> LaunchedFile(i)])

C2_Witness ==
    /\ status = "done"
    /\ Len(launched) = 8
    /\ dataset \notin Range(Tail(ExpectedFiles))

\* C4: an exception is only propagated: once a statement has raised, the
\* script is in the error state and takes no further step (no later
\* statement, no retry of the failed one); a failure before or during evolve
\* leaves zero subprocesses launched.
C4_ErrorsPropagate ==
    /\ [](err # "none" =>
            /\ status = "error"
            /\ Len(started) = pc
            /\ Len(returned) = pc - 1
            /\ ~timerPrinted
            /\ pc <= Len(Prologue) => launched = <<>>)
    /\ [](IsPrefix(started, Script))
    /\ [][err = "none"]_vars

C4_Witness ==
    /\ status = "error"
    /\ err = "evolve"
    /\ inloop
    /\ launched = <<>>

\* C5 as stated: the destination given to the upload command is
\* STORAGE_BUCKET/STORAGE_BASE_KEY_PATH/cloudKey: it is an argument of the
\* subprocess and it is the destination path of the log line.
C5_Original ==
    \A i \in DOMAIN launched :
       /\ log[i].path \in Range(launched[i])
       /\ log[i].path = env["STORAGE_BUCKET"] \o S_slash
                        \o env["STORAGE_BASE_KEY_PATH"] \o S_slash \o LaunchedKey(i)

\* C5 amended: both variables are read by every cloudUpload call, but only
\* the log line uses them: it reports bucket/base/key with every "//"
\* replaced by "/"; the argument list of the subprocess is cloud, upload,
\* cloudKey, inFilePath, --set-acl=public-read whatever the two values are.
C5_EnvOnlyInLog ==
    /\ Len(log) = Len(launched)
    /\ launched # <<>> => EnvComplete
    /\ \A i \in DOMAIN launched :
          /\ launched[i] = << S_cloud, S_upload, ExpectedKeys[i], ExpectedFiles[i], S_set_acl >>
          /\ log[i].file = ExpectedFiles[i]
          /\ log[i].path = Replace(env["STORAGE_BUCKET"] \o S_slash
                                   \o env["STORAGE_BASE_KEY_PATH"] \o S_slash
                                   \o ExpectedKeys[i])

C5_Witness ==
    /\ Len(launched) = 8
    /\ env["STORAGE_BUCKET"] = <<"b","/">>
    /\ log[8].path = <<"b","/","d","/">> \o name_stem \o S_fixed_wave_sww


\* the model times the two loops yield: every 120 s from 0, 5000, every
\* 30 s after 5000, 7000
ExpectedYields ==
    [i \in 1..42 |-> (i - 1) * 120] \o <<5000>>
    \o [i \in 1..66 |-> 5000 + i * 30] \o <<7000>>

\* C6: one domain is evolved from 0 to 5000 s storing every 120 s, then from
\* 5000 s to 7000 s storing every 30 s: model time never decreases, the
\* second loop starts at the time the first ended, the state at 5000 s is
\* yielded once, the final time is 7000 s, and both loops end.
C6_TwoPhases ==
    /\ [](IsPrefix(yielded, ExpectedYields))
    /\ []((At("evolve1") \/ At("evolve2")) => domain.time <= finaltime \/ ~inloop)
    /\ []((At("evolve2") /\ ~inloop) => domain.time = 5000 /\ yielded[Len(yielded)] = 5000)
    /\ []("evolve2" \in Range(returned) => domain.time = 7000 /\ yielded = ExpectedYields)
    /\ [][domain'.time >= domain.time]_vars
    /\ (At("evolve1") ~> ("evolve2" \in Range(returned) \/ status = "error"))

C6_Witness ==
    /\ "evolve2" \in Range(returned)
    /\ domain.time = 7000
    /\ Len(yielded) = 110

\* C7: a non-zero exit code of an upload is only logged: the call returns,
\* the file is not uploaded again, the next statement is executed, and once
\* the 8 uploads have returned the script reaches its normal end with the
\* timer statistics printed, whatever the exit codes were.
C7_FailedUploadContinues ==
    /\ [][Len(launched') # Len(launched) =>
             /\ Len(launched') = Len(launched) + 1
             /\ Len(log') = Len(log) + 1
             /\ status' = "running" /\ err' = "none"
             /\ pc' = pc + 1]_vars
    /\ [](Len(log) = Len(launched))
    /\ [](\A i \in DOMAIN launched : LaunchedFile(i) = ExpectedFiles[i])
    /\ []((status # "running" /\ Len(launched) = 8) => (status = "done" /\ timerPrinted))
    /\ (Len(launched) = 8 ~> (status = "done" /\ timerPrinted))

C7_Witness ==
    /\ status = "done"
    /\ timerPrinted
    /\ Len(log) = 8
    /\ \A i \in DOMAIN log : log[i].retcode # 0

\* C8: with STORAGE_BUCKET or STORAGE_BASE_KEY_PATH not set, the first
\* cloudUpload call raises KeyError before any subprocess is launched: no
\* file is uploaded, the script ends in error without the timer statistics,
\* and the error comes only after both evolve loops have finished.
C8_MissingEnvironment ==
    /\ [](~EnvComplete =>
            /\ launched = <<>> /\ log = <<>>
            /\ status # "done" /\ ~timerPrinted
            /\ pc <= FirstUpload)
    /\ [](err = "KeyError" =>
            /\ ~EnvComplete
            /\ status = "error"
            /\ pc = FirstUpload
            /\ "evolve2" \in Range(returned)
            /\ domain.time = 7000)
    /\ [][(~EnvComplete /\ At("cloudUpload")) => err' = "KeyError"]_vars

C8_Witness ==
    /\ err = "KeyError"
    /\ DOMAIN env = {"STORAGE_BUCKET"}
    /\ launched = <<>>

OceanTags == { "ocean_wsw", "ocean_w", "ocean_wnw" }

\* C10: the polygon has 10 vertices, so 10 boundary segments 0..9; every
\* segment belongs to exactly one of the 10 tags of the domain; when evolve
\* starts the tags bound by set_boundary are exactly those 10, the three
\* ocean tags bound to Bw, the seven others to Bs, none to Bd.
C10_BoundaryConfig ==
    /\ domain.created =>
          /\ domain.nsegments = 10
          /\ Cardinality(DOMAIN domain.tags) = 10
          /\ \A t \in DOMAIN domain.tags : domain.tags[t] \subseteq 0..9
          /\ \A seg \in 0..9 :
                Cardinality({ t \in DOMAIN domain.tags : seg \in domain.tags[t] }) = 1
    /\ "evolve1" \in Range(started) =>
          /\ DOMAIN domain.boundary = DOMAIN domain.tags
          /\ \A t \in DOMAIN domain.boundary :
                domain.boundary[t] = IF t \in OceanTags THEN "Bw" ELSE "Bs"
          /\ { t \in DOMAIN domain.boundary : domain.boundary[t] = "Bw" } = OceanTags
          /\ Cardinality({ t \in DOMAIN domain.boundary : domain.boundary[t] = "Bs" }) = 7

C10_Witness ==
    /\ "evolve1" \in Range(started)
    /\ domain.boundary["ocean_w"] = "Bw"
    /\ domain.boundary["top"] = "Bs"

\* C9: every file given to cloudUpload is present in the working directory,
\* produced by an earlier statement or supplied as input, under the name
\* that is uploaded; the file the solver stores to is the uploaded .sww.
C9_UploadedFilesExist ==
    /\ \A i \in DOMAIN launched : LaunchedFile(i) \in files
    /\ "evolve1" \in Range(started) => SwwFile = name_stem \o S_fixed_wave_sww

\* C3: the_wave(t) is [20*sin(t*pi/600)*exp(-t/600), 0, 0] for every t >= 0,
\* integer or real: the sine argument is pi*t/600, the exponent is -t/600,
\* the stage is 0 at t = 0 and both momenta are 0.
C3_WaveAsSpecified ==
    wave_out # <<>> =>
       /\ wave_out[1].amp = 20
       /\ wave_out[1].sinNum * 600 = wave_in.val * wave_out[1].sinDen
       /\ wave_out[1].expNum * 600 = (- wave_in.val) * wave_out[1].expDen
       /\ wave_in.val = 0 => wave_out[1].sinNum = 0
       /\ wave_out[2] = 0 /\ wave_out[3] = 0

\* the_wave on the times the solver computes, which are floats
C3_WaveOnFloats ==
    (wave_out # <<>> /\ wave_in.type = "float") => C3_WaveAsSpecified

=============================================================================
